---- MODULE Spec2Model ----
(***************************************************************************)
(* Model of the PMS7003 stream reader of mini-aqm (src/pms7003.py).        *)
(*                                                                         *)
(* PMS7003.read() is modelled step by step: the flush and the start of the *)
(* deadline (ReadBegin), the head of the outer `while data is None` loop   *)
(* (OuterLoop), one iteration of the fill loop (PortRead) and one          *)
(* iteration of the consume loop (DecodeStep).  The sensor is a finite     *)
(* byte stream chosen in Init; once it is exhausted the port is silent and *)
(* every port read returns zero bytes after the port timeout.              *)
(***************************************************************************)
EXTENDS Integers, Naturals, Sequences, FiniteSets, TLC

\* ---------------------------------------------------------------- constants
PMS_7003_PROTOCOL_SIZE == 32
HEADER_HIGH == 66
HEADER_LOW == 77
READ_TIMEOUT_SEC == 2
READ_SIZE == 1024

\* ------------------------------------------------------------------- bounds
MaxSegs == 2        \* segments in a composed stream
MaxLead == 40       \* leading non-header bytes before a frame
MaxFrames == 3      \* frames in a stream entered at an arbitrary offset
MaxCalls == 2       \* read() calls per behaviour

\* ------------------------------------------------------------------ helpers
Take(s, n) == SubSeq(s, 1, n)
Drop(s, n) == SubSeq(s, n + 1, Len(s))
Min(a, b) == IF a < b THEN a ELSE b

RECURSIVE SumBytes(_, _)
\* sum(chksum_data[:-1]) restricted to the first n bytes
SumBytes(b, n) == IF n = 0 THEN 0 ELSE b[n] + SumBytes(b, n - 1)

\* the value `None` of the local `data`
NoData == << >>

\* PMSData._make(PMSStruct.unpack(buffer)) with PMSStruct = "!2B15H":
\* two unsigned bytes, then fifteen big-endian unsigned shorts
UnpackLE(b) ==
    [i \in 1..17 |-> IF i <= 2 THEN b[i] ELSE b[2 * i - 3] + 256 * b[2 * i - 2]]
Unpack(b) ==
    [i \in 1..17 |-> IF i <= 2 THEN b[i] ELSE 256 * b[2 * i - 3] + b[2 * i - 2]]

\* PMS7003.header_valid
HeaderHighOnly(d) == d[1] = HEADER_HIGH
header_valid(d) == d[1] = HEADER_HIGH /\ d[2] = HEADER_LOW

\* `self.buffer = self.buffer[1:]`: the slide after a header mismatch
AfterMismatchWholeFrame(b) == Drop(b, PMS_7003_PROTOCOL_SIZE)
AfterMismatch(b) == Drop(b, 1)

\* `self.buffer = self.buffer[32:]`: the advance after a valid header
AfterHeaderClears(b) == << >>
AfterHeader(b) == Drop(b, PMS_7003_PROTOCOL_SIZE)

\* the test of `while len(self.buffer) >= 32` after an iteration that left
\* buffer b and data d: the pass goes on whatever was decoded
ConsumeLoopStopsOnReading(b, d) ==
    IF d = NoData /\ Len(b) >= PMS_7003_PROTOCOL_SIZE THEN "consume" ELSE "outer"
ConsumeLoopNext(b, d) ==
    IF Len(b) >= PMS_7003_PROTOCOL_SIZE THEN "consume" ELSE "outer"

\* PMS7003.checksum_valid with ChecksumStruct = "!30BH"
ChecksumAlwaysValid(b) == TRUE
ChecksumLowByte(b) == SumBytes(b, 30) % 256 = b[32]
ChecksumAtMost(b) == SumBytes(b, 30) <= 256 * b[31] + b[32]
checksum_valid(b) ==
    LET calculated == SumBytes(b, 30)
        sent == 256 * b[31] + b[32]
    IN  calculated = sent

\* ------------------------------------------------------- the sensor's bytes
\* big-endian encoding of a sequence of shorts
RECURSIVE Shorts(_)
Shorts(f) ==
    IF f = << >> THEN << >>
    ELSE << Head(f) \div 256, Head(f) % 256 >> \o Shorts(Tail(f))

\* a 32-byte frame as the sensor sends it: header, fourteen shorts
\* (frame_length .. reserved) and the checksum, which is off by `delta`
MkFrame(f, delta) ==
    LET head == << HEADER_HIGH, HEADER_LOW >> \o Shorts(f)
    IN  head \o Shorts(<< SumBytes(head, 30) + delta >>)

FieldsA == << 28, 1, 2, 3, 1, 2, 3, 100, 50, 20, 5, 1, 0, 0 >>
FieldsB == << 28, 300, 520, 1000, 290, 510, 999, 4000, 1200, 300, 40, 7, 2, 0 >>
\* count_0_3 = 16973 = 0x424D: the body holds the header byte pair
FieldsH == << 28, 10, 20, 30, 10, 20, 30, 16973, 5000, 700, 60, 8, 1, 0 >>

FrameOf(t) ==
    CASE t = "A" -> MkFrame(FieldsA, 0)
      [] t = "B" -> MkFrame(FieldsB, 0)
      [] t = "H" -> MkFrame(FieldsH, 0)
      [] t = "X" -> MkFrame(FieldsA, 1)
      [] t = "n" -> << 0 >>
      [] t = "N" -> [i \in 1..PMS_7003_PROTOCOL_SIZE |-> 255]

ValidTags == {"A", "B", "H"}
SegTags == {"A", "B", "X", "n", "N"}

\* leading bytes without the header pair: 66, 0, 77, 66, 0, 77, ...
NoiseByte(i) == CASE i % 3 = 1 -> HEADER_HIGH [] i % 3 = 2 -> 0 [] OTHER -> HEADER_LOW
Noise(n) == [i \in 1..n |-> NoiseByte(i)]

RECURSIVE Concat(_)
Concat(ts) == IF ts = << >> THEN << >> ELSE FrameOf(Head(ts)) \o Concat(Tail(ts))

SegSeqs == UNION {[1..n -> SegTags] : n \in 0..MaxSegs}

Sources ==
    {[kind |-> "segs", segs |-> s, n |-> 0] : s \in SegSeqs}
    \cup {[kind |-> "lead", segs |-> << "A" >>, n |-> n] : n \in 0..MaxLead}
    \cup {[kind |-> "offset", segs |-> [i \in 1..MaxFrames |-> t], n |-> n] :
            t \in ValidTags, n \in 0..(PMS_7003_PROTOCOL_SIZE - 1)}

\* line noise: bit k of the byte at (0-based) offset o of a frame inverted
Pow2(k) == CASE k = 0 -> 1 [] k = 1 -> 2 [] k = 2 -> 4 [] k = 3 -> 8
             [] k = 4 -> 16 [] k = 5 -> 32 [] k = 6 -> 64 [] k = 7 -> 128
FlipBit(x, k) == IF (x \div Pow2(k)) % 2 = 1 THEN x - Pow2(k) ELSE x + Pow2(k)
FlipAt(f, o, k) == [i \in 1..Len(f) |-> IF i = o + 1 THEN FlipBit(f[i], k) ELSE f[i]]

\* one valid frame with a single bit flipped in its body or checksum field;
\* n = 8 * offset + bit, offset in 2..31
FlipSources ==
    {[kind |-> "flip", segs |-> << t >>, n |-> n] :
        t \in ValidTags, n \in 16..(8 * PMS_7003_PROTOCOL_SIZE - 1)}

StreamOf(s) ==
    CASE s.kind = "segs" -> Concat(s.segs)
      [] s.kind = "flip" -> FlipAt(Concat(s.segs), s.n \div 8, s.n % 8)
      [] s.kind = "lead" -> Noise(s.n) \o Concat(s.segs)
      [] s.kind = "offset" -> Drop(Concat(s.segs), s.n)

\* ---------------------------------------------------------------- the state
VARIABLES
    src,              \* which stream the sensor sends (fixed by Init)
    wire,             \* bytes the sensor has not sent yet
    backlog,          \* the serial driver's input queue
    pc,               \* position in read(): idle, outer, fill, consume
    elapsed,          \* time.time() - began, READ_TIMEOUT_SEC + 1 = exceeded
    buffer,           \* self.buffer
    candidate,        \* the local `buffer`: the 32 bytes under examination
    data,             \* the local `data`
    checksum_errors,  \* self.checksum_errors
    serial,           \* self._serial: "none" until the first use opens it
    raised,           \* the exception read() has let through: none, io
    rets,             \* history: the values returned by read()
    received,         \* history: every byte read from the port
    polls,            \* history: parity of the number of serial.read calls
    ok_call,          \* history: valid frames consumed in the current call
    ok_total,         \* history: valid frames consumed since construction
    only,             \* find_devices: the argument `only` (NoPort = None)
    env,              \* the machine's serial ports: what comports() lists
    fd_pc,            \* position in main()/find_devices(), "off" = not run
    fd_i,             \* find_devices: index of `p` in `for p in possible`
    possible,         \* find_devices: the list of SearchResults
    cur               \* which reader the variables above belong to (self)

sysvars == << only, env, fd_pc, fd_i, possible, cur >>

vars == << src, wire, backlog, pc, elapsed, buffer, candidate, data,
           checksum_errors, serial, raised, rets, received, polls, ok_call,
           ok_total, sysvars >>

NoPort == 0

\* PMS7003.__init__
InitFrom(S) ==
    /\ src \in S
    /\ wire = StreamOf(src)
    /\ only = NoPort
    /\ env = << >>
    /\ fd_pc = "off"
    /\ fd_i = 0
    /\ possible = << >>
    /\ cur = 0
    /\ backlog = << >>
    /\ pc = "idle"
    /\ elapsed = 0
    /\ buffer = << >>
    /\ candidate = << >>
    /\ data = NoData
    /\ checksum_errors = 0
    /\ serial = "none"
    /\ raised = "none"
    /\ rets = << >>
    /\ received = << >>
    /\ polls = 0
    /\ ok_call = 0
    /\ ok_total = 0

Init == InitFrom(Sources)

\* how many bytes one transfer may carry
Sizes(n) ==
    {k \in {0, PMS_7003_PROTOCOL_SIZE - 1, PMS_7003_PROTOCOL_SIZE + 1, n} :
        k <= n /\ k <= READ_SIZE}

\* the sensor keeps sending while nobody reads: bytes pile up in the driver
Arrive ==
    /\ pc = "idle"
    /\ \E k \in Sizes(Len(wire)) \ {0} :
        /\ backlog' = backlog \o Take(wire, k)
        /\ wire' = Drop(wire, k)
    /\ UNCHANGED sysvars
    /\ UNCHANGED << serial, raised >>
    /\ UNCHANGED << src, pc, elapsed, buffer, candidate, data, checksum_errors,
                    rets, received, polls, ok_call, ok_total >>

\* read(): self.serial.flushInput(); began = time.time(); data = None
ReadBeginDropsBuffer ==
    /\ pc = "idle"
    /\ Len(rets) < MaxCalls
    /\ serial' = "open"
    /\ backlog' = << >>
    /\ buffer' = << >>
    /\ elapsed' = 0
    /\ data' = NoData
    /\ ok_call' = 0
    /\ pc' = "outer"
    /\ UNCHANGED sysvars
    /\ UNCHANGED << raised >>
    /\ UNCHANGED << src, wire, candidate, checksum_errors, rets, received,
                    polls, ok_total >>
ReadBegin ==
    /\ pc = "idle"
    /\ Len(rets) < MaxCalls
    /\ serial' = "open"
    /\ backlog' = << >>
    /\ elapsed' = 0
    /\ data' = NoData
    /\ ok_call' = 0
    /\ pc' = "outer"
    /\ UNCHANGED sysvars
    /\ UNCHANGED << raised >>
    /\ UNCHANGED << src, wire, buffer, candidate, checksum_errors, rets,
                    received, polls, ok_total >>

\* head of `while data is None`, the deadline test and `return data`
OuterLoop ==
    /\ pc = "outer"
    /\ IF data # NoData \/ elapsed > READ_TIMEOUT_SEC
       THEN /\ rets' = Append(rets, data)
            /\ pc' = "idle"
       ELSE /\ rets' = rets
            /\ pc' = IF Len(buffer) < PMS_7003_PROTOCOL_SIZE THEN "fill"
                     ELSE "consume"
    /\ UNCHANGED sysvars
    /\ UNCHANGED << serial, raised >>
    /\ UNCHANGED << src, wire, backlog, elapsed, buffer, candidate, data,
                    checksum_errors, received, polls, ok_call, ok_total >>

\* one iteration of `while len(self.buffer) < 32: self.buffer += read(1024)`
\* the read returns zero bytes only when the port timeout has run out
PortRead ==
    /\ pc = "fill"
    /\ Len(buffer) < PMS_7003_PROTOCOL_SIZE
    /\ \E k \in Sizes(Len(wire)), d \in 0..READ_TIMEOUT_SEC :
        /\ k = 0 => d = READ_TIMEOUT_SEC
        /\ buffer' = buffer \o Take(wire, k)
        /\ received' = received \o Take(wire, k)
        /\ wire' = Drop(wire, k)
        /\ elapsed' = Min(elapsed + d, READ_TIMEOUT_SEC + 1)
    /\ polls' = 1 - polls
    /\ pc' = IF Len(buffer') < PMS_7003_PROTOCOL_SIZE THEN "fill" ELSE "consume"
    /\ UNCHANGED sysvars
    /\ UNCHANGED << serial, raised >>
    /\ UNCHANGED << src, backlog, candidate, data, checksum_errors, rets,
                    ok_call, ok_total >>

\* `self.serial.read(1024)` raises (port closed, device removed): nothing in
\* read() catches it, so it leaves read() before `self.buffer +=` assigns
PortReadFailsRetried ==
    /\ pc = "fill"
    /\ Len(buffer) < PMS_7003_PROTOCOL_SIZE
    /\ raised = "none"
    /\ raised' = "io"
    /\ polls' = 1 - polls
    /\ pc' = "fill"
    /\ UNCHANGED sysvars
    /\ UNCHANGED << src, wire, backlog, elapsed, buffer, candidate, data,
                    checksum_errors, serial, rets, received, ok_call, ok_total >>
PortReadFails ==
    /\ pc = "fill"
    /\ Len(buffer) < PMS_7003_PROTOCOL_SIZE
    /\ raised' = "io"
    /\ polls' = 1 - polls
    /\ pc' = "failed"
    /\ UNCHANGED sysvars
    /\ UNCHANGED << src, wire, backlog, elapsed, buffer, candidate, data,
                    checksum_errors, serial, rets, received, ok_call, ok_total >>

\* one iteration of `while len(self.buffer) >= 32`
DecodeStep ==
    /\ pc = "consume"
    /\ Len(buffer) >= PMS_7003_PROTOCOL_SIZE
    /\ LET buf == Take(buffer, PMS_7003_PROTOCOL_SIZE)
           maybe_data == Unpack(buf)
       IN  /\ candidate' = buf
           /\ IF header_valid(maybe_data)
              THEN /\ buffer' = AfterHeader(buffer)
                   /\ IF checksum_valid(buf)
                      THEN /\ data' = maybe_data
                           /\ checksum_errors' = checksum_errors
                           /\ ok_call' = ok_call + 1
                           /\ ok_total' = ok_total + 1
                      ELSE /\ data' = NoData
                           /\ checksum_errors' = checksum_errors + 1
                           /\ UNCHANGED << ok_call, ok_total >>
              ELSE /\ buffer' = AfterMismatch(buffer)
                   /\ data' = NoData
                   /\ UNCHANGED << checksum_errors, ok_call, ok_total >>
    /\ UNCHANGED sysvars
    /\ pc' = ConsumeLoopNext(buffer', data')
    /\ UNCHANGED << serial, raised >>
    /\ UNCHANGED << src, wire, backlog, elapsed, rets, received, polls >>

Next ==
    Arrive \/ ReadBegin \/ OuterLoop \/ PortRead \/ PortReadFails \/ DecodeStep

Spec == Init /\ [][Next]_vars

\* the interpreter runs read() on; the sensor may stop sending at any time
FairSpec == Spec /\ WF_vars(ReadBegin \/ OuterLoop \/ PortRead \/ DecodeStep)

\* the reader fed with single-bit-corrupted frames
FlipInit == InitFrom(FlipSources)
FlipSpec == FlipInit /\ [][Next]_vars

\* ------------------------------------------------ main() and find_devices()
MaxPorts == 2       \* serial ports on the machine

rvars == << src, wire, backlog, pc, elapsed, buffer, candidate, data,
            checksum_errors, serial, raised, rets, received, polls, ok_call,
            ok_total >>

EmptySrc == [kind |-> "segs", segs |-> << >>, n |-> 0]

\* what the sensors on the machine's ports send
SysSources ==
    {[kind |-> "segs", segs |-> sg, n |-> 0] :
        sg \in {<< "A", "B" >>, << "N", "n" >>}}

\* a port as os.path.exists / os.access / serial.Serial find it
PortConfigs ==
    {[state |-> "missing", src |-> EmptySrc], [state |-> "denied", src |-> EmptySrc]}
    \cup {[state |-> "ok", src |-> sc] : sc \in SysSources}

Envs == UNION {[1..n -> PortConfigs] : n \in 0..MaxPorts}

\* dataclass SearchResult; `probe` is history: the reader as its trial left it
NoDev == [set |-> FALSE]
NoError == ""
SearchResult(port) ==
    [port |-> port, dev |-> NoDev, error |-> NoError, probe |-> NoDev]

\* the attributes of the reader `self` is bound to, its port and its
\* history; the locals of read() (began, data, buffer) die with each call
Snapshot ==
    [set |-> TRUE, src |-> src, wire |-> wire, buffer |-> buffer,
     checksum_errors |-> checksum_errors, serial |-> serial, raised |-> raised,
     rets |-> rets, received |-> received, ok_total |-> ok_total]

\* history of a trial: what its read() returned or raised
Probe == [set |-> TRUE, raised |-> raised, rets |-> rets]

\* no reader is bound to `self`: the reader variables hold nothing
Unbound ==
    /\ src' = EmptySrc
    /\ wire' = << >>
    /\ backlog' = << >>
    /\ pc' = "idle"
    /\ elapsed' = 0
    /\ buffer' = << >>
    /\ candidate' = << >>
    /\ data' = NoData
    /\ checksum_errors' = 0
    /\ serial' = "none"
    /\ raised' = "none"
    /\ rets' = << >>
    /\ received' = << >>
    /\ polls' = 0
    /\ ok_call' = 0
    /\ ok_total' = 0

\* `self.buffer = b""` in __init__ makes the buffer an attribute of the
\* instance: a reader finds in it what that same reader left there
ClassBuffer(d) == buffer
SelfBuffer(d) == d.buffer

\* `if dev.read():` a Reading is a non-empty tuple, None is falsy
AlwaysTruthy(x) == TRUE
Truthy(x) == x # NoData

SysInit ==
    /\ src = EmptySrc
    /\ wire = << >>
    /\ backlog = << >>
    /\ pc = "idle"
    /\ elapsed = 0
    /\ buffer = << >>
    /\ candidate = << >>
    /\ data = NoData
    /\ checksum_errors = 0
    /\ serial = "none"
    /\ raised = "none"
    /\ rets = << >>
    /\ received = << >>
    /\ polls = 0
    /\ ok_call = 0
    /\ ok_total = 0
    /\ only \in {NoPort, 1}
    /\ env \in Envs
    /\ fd_pc = "start"
    /\ fd_i = 0
    /\ possible = << >>
    /\ cur = 0

\* find_devices: `if only:` ... `else:` ...; the f-string of the first branch
\* names `port`, which is bound nowhere: NameError, nothing is returned
FdStart ==
    /\ fd_pc = "start"
    /\ IF only # NoPort
       THEN /\ fd_pc' = "raised"
            /\ UNCHANGED << possible, fd_i >>
       ELSE /\ possible' = [i \in 1..Len(env) |-> SearchResult(i)]
            /\ fd_i' = 1
            /\ fd_pc' = "loop"
    /\ UNCHANGED << only, env, cur >>
    /\ UNCHANGED rvars

\* find_devices: one pass of `for p in possible` up to `dev = PMS7003(p.port)`
FdCheck ==
    /\ fd_pc = "loop"
    /\ fd_i <= Len(possible)
    /\ LET e == env[possible[fd_i].port]
       IN  IF e.state = "missing"
           THEN /\ possible' = [possible EXCEPT ![fd_i].error = "no such port"]
                /\ fd_i' = fd_i + 1
                /\ UNCHANGED << fd_pc, cur >>
                /\ UNCHANGED rvars
           ELSE IF e.state = "denied"
           THEN /\ possible' = [possible EXCEPT ![fd_i].error = "access denied"]
                /\ fd_i' = fd_i + 1
                /\ UNCHANGED << fd_pc, cur >>
                /\ UNCHANGED rvars
           ELSE /\ src' = e.src
                /\ wire' = StreamOf(e.src)
                /\ backlog' = << >>
                /\ pc' = "idle"
                /\ elapsed' = 0
                /\ buffer' = << >>
                /\ candidate' = << >>
                /\ data' = NoData
                /\ checksum_errors' = 0
                /\ serial' = "none"
                /\ raised' = "none"
                /\ rets' = << >>
                /\ received' = << >>
                /\ polls' = 0
                /\ ok_call' = 0
                /\ ok_total' = 0
                /\ fd_pc' = "trial"
                /\ cur' = fd_i
                /\ UNCHANGED << possible, fd_i >>
    /\ UNCHANGED << only, env >>

\* find_devices: `dev.read()` of the trial
FdTrialBegin == fd_pc = "trial" /\ rets = << >> /\ ReadBegin
FdTrialStep ==
    /\ fd_pc = "trial"
    /\ OuterLoop \/ PortRead \/ PortReadFails \/ DecodeStep
FdTrialArrive == fd_pc = "trial" /\ Arrive

\* find_devices: `if dev.read(): p.dev = dev else: p.error = "no data"`
FdTrialDone ==
    /\ fd_pc = "trial"
    /\ pc = "idle"
    /\ rets # << >>
    /\ possible' =
         IF Truthy(rets[Len(rets)])
         THEN [possible EXCEPT ![fd_i].dev = Snapshot, ![fd_i].probe = Probe]
         ELSE [possible EXCEPT ![fd_i].error = "no data", ![fd_i].probe = Probe]
    /\ fd_i' = fd_i + 1
    /\ fd_pc' = "loop"
    /\ cur' = 0
    /\ UNCHANGED << only, env >>
    /\ Unbound

\* find_devices: `except Exception as e: p.error = str(e)`
FdTrialRaised ==
    /\ fd_pc = "trial"
    /\ pc = "failed"
    /\ possible' = [possible EXCEPT ![fd_i].error = raised, ![fd_i].probe = Probe]
    /\ fd_i' = fd_i + 1
    /\ fd_pc' = "loop"
    /\ cur' = 0
    /\ UNCHANGED << only, env >>
    /\ Unbound

\* find_devices: `return possible`
FdReturn ==
    /\ fd_pc = "loop"
    /\ fd_i > Len(possible)
    /\ fd_pc' = "returned"
    /\ UNCHANGED << only, env, fd_i, possible, cur >>
    /\ UNCHANGED rvars

\* main: devs = [p.dev for p in possible if p.dev]
Devs == {i \in 1..Len(possible) : possible[i].dev.set}
NextDev(c) ==
    IF \E i \in Devs : i > c
    THEN CHOOSE i \in Devs : i > c /\ \A j \in Devs : j > c => i <= j
    ELSE CHOOSE i \in Devs : \A j \in Devs : i <= j

\* main: the two early returns, or on to the polling loop
MainStart ==
    /\ fd_pc = "returned"
    /\ fd_pc' = IF possible = << >> \/ Devs = {} THEN "exit" ELSE "main"
    /\ UNCHANGED << only, env, fd_i, possible, cur >>
    /\ UNCHANGED rvars

\* main: `for dev in devs: data = dev.read()`: self is bound to the next
\* device and read() begins (flush, began, data = None); what reached the
\* port while the device was not read is flushed
MainCall ==
    /\ fd_pc = "main"
    /\ cur = 0 \/ pc = "idle"
    /\ LET nxt == NextDev(cur)
           d == IF nxt = cur THEN Snapshot ELSE possible[nxt].dev
       IN  /\ Len(d.rets) < MaxCalls
           /\ possible' = IF cur = 0 \/ nxt = cur THEN possible
                          ELSE [possible EXCEPT ![cur].dev = Snapshot]
           /\ cur' = nxt
           /\ \E k \in Sizes(Len(d.wire)) : wire' = Drop(d.wire, k)
           /\ src' = d.src
           /\ backlog' = << >>
           /\ pc' = "outer"
           /\ elapsed' = 0
           /\ buffer' = SelfBuffer(d)
           /\ candidate' = << >>
           /\ data' = NoData
           /\ checksum_errors' = d.checksum_errors
           /\ serial' = "open"
           /\ raised' = d.raised
           /\ rets' = d.rets
           /\ received' = d.received
           /\ polls' = 0
           /\ ok_call' = 0
           /\ ok_total' = d.ok_total
    /\ UNCHANGED << only, env, fd_pc, fd_i >>

MainStep ==
    /\ fd_pc = "main"
    /\ cur # 0
    /\ OuterLoop \/ PortRead \/ PortReadFails \/ DecodeStep

SysNext ==
    \/ FdStart \/ FdCheck \/ FdReturn
    \/ FdTrialBegin \/ FdTrialStep \/ FdTrialArrive \/ FdTrialDone \/ FdTrialRaised
    \/ MainStart \/ MainCall \/ MainStep

SysSpec == SysInit /\ [][SysNext]_vars

\* ------------------------------------------------------------------ claims
Last(s) == s[Len(s)]
ReadingOf(t) == Unpack(FrameOf(t))
HeaderAt(b) == b[1] = HEADER_HIGH /\ b[2] = HEADER_LOW
SumMatches(b) == SumBytes(b, 30) = 256 * b[31] + b[32]
Full == PMS_7003_PROTOCOL_SIZE

\* C1: when one read() call receives two back-to-back valid frames, it
\* returns the Reading of the first frame and leaves the 32 bytes of the
\* second frame in the Receive Buffer.
C1_FirstOfTwoFrames ==
    ( /\ src.kind = "segs" /\ Len(src.segs) = 2
      /\ \A i \in 1..2 : src.segs[i] \in ValidTags
      /\ pc = "idle" /\ Len(rets) = 1
      /\ received = StreamOf(src) )
    => /\ rets[1] = ReadingOf(src.segs[1])
       /\ buffer = FrameOf(src.segs[2])

\* C2: every read() call terminates: whatever the serial source does, a
\* call that has begun eventually returns (a Reading or the timeout outcome)
\* unless a port error ends it.
C2_ReadTerminates == (pc # "idle") ~> (pc \in {"idle", "failed"})

\* C3: a read() call that consumed a candidate with valid header and valid
\* checksum returns a Reading, never the no-Reading outcome.
C3_ValidFrameNotDropped ==
    (pc = "idle" /\ rets # << >> /\ ok_call > 0) => Last(rets) # NoData

\* C4: for a stream of N <= MaxLead leading bytes without the header pair
\* followed by one valid frame, every decode step before the frame removes
\* exactly one byte, and the call that has received the whole stream returns
\* exactly the Reading of the embedded frame.
C4_LeadingBytesSkipped ==
    /\ [](( /\ src.kind = "lead" /\ pc = "idle" /\ rets # << >>
            /\ received = StreamOf(src) )
          => /\ Last(rets) = ReadingOf("A")
             /\ buffer = << >>
             /\ checksum_errors = 0)
    /\ [][(src.kind = "lead" /\ pc = "consume")
          => \/ /\ buffer' = Tail(buffer)
                /\ data' = NoData
                /\ ~HeaderAt(buffer)
             \/ /\ buffer = FrameOf("A")
                /\ buffer' = << >>
                /\ data' = ReadingOf("A")]_vars
C4_Witness ==
    /\ src.kind = "lead" /\ src.n = MaxLead
    /\ pc = "idle" /\ rets # << >> /\ Last(rets) = ReadingOf("A")
    /\ received = StreamOf(src)

\* C5: entered at any byte offset of a stream of valid frames, the reader
\* decodes a valid frame by the time it has consumed the stream (here: at
\* least two whole frames follow the offset).
C5_LockRegained ==
    ( /\ src.kind = "offset"
      /\ received = StreamOf(src)
      /\ Len(buffer) < Full )
    => ok_total >= 1

\* C6: every Reading read() hands out comes from a candidate that passed
\* both checks: header bytes 0x42, 0x4D and a checksum field equal to the
\* sum of the 30 bytes at offsets 0..29 of the raw 32 bytes.
C6_ReadingValidated ==
    /\ data # NoData =>
        /\ Len(candidate) = Full
        /\ data[1] = 66 /\ candidate[1] = 66
        /\ data[2] = 77 /\ candidate[2] = 77
        /\ data[17] = SumBytes(candidate, 30)
    /\ \A i \in 1..Len(rets) : rets[i] # NoData =>
        /\ rets[i][1] = 66 /\ rets[i][2] = 77
        /\ rets[i][17] = rets[i][1] + rets[i][2]
             + SumBytes([j \in 1..14 |-> (rets[i][j + 2] \div 256)
                                          + (rets[i][j + 2] % 256)], 14)
C6_Witness ==
    /\ rets # << >> /\ Last(rets) # NoData
    /\ checksum_errors > 0

\* C7: while the Receive Buffer holds fewer than 32 bytes no decode attempt
\* is made: no step removes or alters a buffered byte, examines a candidate,
\* produces a Reading or counts a checksum error; the buffer changes only by
\* a port read appending bytes at its tail.
C7_ShortBufferUntouched ==
    [][Len(buffer) < Full
       => /\ candidate' = candidate
          /\ checksum_errors' = checksum_errors
          /\ ok_total' = ok_total
          /\ data' \in {data, NoData}
          /\ \/ buffer' = buffer
             \/ /\ pc = "fill"
                /\ Len(buffer') > Len(buffer)
                /\ Take(buffer', Len(buffer)) = buffer
                /\ received' = received \o Drop(buffer', Len(buffer))]_vars
C7_Witness ==
    /\ pc = "fill" /\ buffer # << >> /\ Len(buffer) < Full
    /\ rets # << >> /\ wire # << >>

\* C8: with at least 32 bytes buffered and the first two not (0x42, 0x4D),
\* the next step removes exactly one byte from the front, produces no
\* Reading and leaves the checksum-error counter and the other bytes alone.
C8_MismatchSlidesOne ==
    [][(Len(buffer) >= Full /\ ~HeaderAt(buffer))
       => /\ buffer' = Tail(buffer)
          /\ data' = NoData
          /\ checksum_errors' = checksum_errors
          /\ rets' = rets]_vars
C8_Witness ==
    /\ pc = "consume" /\ Len(buffer) >= Full /\ ~HeaderAt(buffer)
    /\ Len(received) - Len(buffer) >= 2

\* C9: a candidate with the header but a wrong checksum is removed whole (32
\* bytes), yields no Reading, raises checksum_errors by one and does not end
\* read(): decoding goes on with the following bytes.  checksum_errors
\* changes in no other step.
C9_ChecksumMismatch ==
    /\ [][(Len(buffer) >= Full /\ HeaderAt(buffer) /\ ~SumMatches(buffer))
          => /\ buffer' = Drop(buffer, Full)
             /\ data' = NoData
             /\ checksum_errors' = checksum_errors + 1
             /\ rets' = rets
             /\ pc' = IF Len(buffer') >= Full THEN "consume" ELSE "outer"]_vars
    /\ [][checksum_errors' # checksum_errors
          => /\ pc = "consume" /\ Len(buffer) >= Full
             /\ HeaderAt(buffer) /\ ~SumMatches(buffer)]_vars
C9_Witness ==
    /\ checksum_errors = 1 /\ data # NoData /\ buffer = << >>

\* C10: the Reading decoded from a candidate with header and matching
\* checksum has header_high = byte 0, header_low = byte 1 and its fifteen
\* other fields equal to 256 * byte[2+2i] + byte[3+2i], i = 0..14.
C10_BigEndianFields ==
    data # NoData =>
        /\ HeaderAt(candidate) /\ SumMatches(candidate)
        /\ Len(data) = 17
        /\ data[1] = candidate[1]
        /\ data[2] = candidate[2]
        /\ \A i \in 0..14 :
            data[3 + i] = 256 * candidate[3 + 2 * i] + candidate[4 + 2 * i]
C10_Witness ==
    /\ data # NoData
    /\ data[4] = 300 /\ candidate[5] = 1 /\ candidate[6] = 44

\* C11: a valid frame with one bit flipped in any byte at offsets 2..31 is
\* rejected as a checksum mismatch with all 32 bytes consumed; it is never
\* accepted as a Reading.
C11_BitFlipRejected ==
    /\ [](/\ ok_total = 0
          /\ data = NoData
          /\ \A i \in 1..Len(rets) : rets[i] = NoData)
    /\ [][(Len(buffer) >= Full /\ Take(buffer, Full) = StreamOf(src))
          => /\ candidate' = StreamOf(src)
             /\ buffer' = Drop(buffer, Full)
             /\ checksum_errors' = checksum_errors + 1
             /\ data' = NoData]_vars
C11_Witness ==
    /\ src.kind = "flip" /\ src.n \div 8 = 30
    /\ candidate = StreamOf(src) /\ candidate # FrameOf(src.segs[1])
    /\ checksum_errors = 1 /\ buffer = << >>

\* C12: a port read that fails with an I/O error ends read() at once: the
\* error leaves read() in that very step, the Receive Buffer and
\* checksum_errors keep the values they had before the failing read, and no
\* further port read is made in that call.
C12_PortErrorPropagates ==
    /\ [][raised' # raised
          => /\ pc = "fill" /\ pc' = "failed"
             /\ buffer' = buffer
             /\ checksum_errors' = checksum_errors
             /\ received' = received
             /\ rets' = rets]_vars
    /\ [][raised = "io"
          => /\ polls' = polls
             /\ received' = received
             /\ buffer' = buffer
             /\ checksum_errors' = checksum_errors
             /\ rets' = rets]_vars
C12_Witness ==
    /\ raised = "io" /\ pc = "failed"
    /\ buffer # << >> /\ checksum_errors = 1

\* C13: the Receive Buffer changes only by bytes read from the port being
\* appended at its tail, by one byte leaving its front or by 32 bytes leaving
\* its front; so it always is a contiguous suffix of all bytes received.
C13_BufferIsSuffix ==
    /\ [](\E k \in 0..Len(received) : buffer = Drop(received, k))
    /\ [][buffer' # buffer
          => \/ /\ Len(buffer') > Len(buffer)
                /\ Take(buffer', Len(buffer)) = buffer
                /\ received' = received \o Drop(buffer', Len(buffer))
             \/ /\ received' = received
                /\ Len(buffer) >= 1
                /\ buffer' = Drop(buffer, 1)
             \/ /\ received' = received
                /\ Len(buffer) >= Full
                /\ buffer' = Drop(buffer, Full)]_vars
C13_Witness ==
    /\ buffer # << >> /\ ok_total >= 1
    /\ Len(received) - Len(buffer) > Full
    /\ (Len(received) - Len(buffer)) % Full # 0

\* C17: whenever read() returns (Reading or timeout) the Receive Buffer holds
\* fewer than 32 bytes, so every call starts with fewer than 32; a decode
\* pass removes 1 or 32 bytes per step and ends only below 32 bytes.
C17_ShortBufferAtReturn ==
    /\ [](pc # "consume" => Len(buffer) < Full)
    /\ [][pc = "consume"
          => /\ Len(buffer) - Len(buffer') \in {1, Full}
             /\ pc' = IF Len(buffer') < Full THEN "outer" ELSE "consume"]_vars
    /\ [][rets' # rets => Len(buffer') < Full /\ pc' = "idle"]_vars
C17_Witness ==
    /\ pc = "idle" /\ rets # << >> /\ Last(rets) # NoData
    /\ buffer # << >> /\ Len(received) > 2 * Full

\* C18: the flush at the start of read() empties the driver's backlog and
\* leaves the Receive Buffer as it is; the bytes read next are appended
\* behind the leftover, so a candidate may splice bytes from before and
\* after the flushed gap, and still a Reading only comes from a candidate
\* that passes header and checksum.
IsWindow(c, s) == \E k \in 0..Len(s) : k + Len(c) <= Len(s) /\ SubSeq(s, k + 1, k + Len(c)) = c
C18_FlushKeepsBuffer ==
    /\ [][(pc = "idle" /\ pc' # "idle")
          => /\ buffer' = buffer
             /\ backlog' = << >>
             /\ received' = received]_vars
    /\ [][(pc = "fill" /\ buffer' # buffer)
          => Take(buffer', Len(buffer)) = buffer]_vars
    /\ [](data # NoData
          => HeaderAt(candidate) /\ SumMatches(candidate)
             /\ data = Unpack(candidate))
C18_Witness ==
    /\ Len(candidate) = Full
    /\ ~IsWindow(candidate, StreamOf(src))
    /\ Len(rets) >= 1

\* C14: find_devices called with only = <port> checks just that port and
\* returns a list of exactly one SearchResult for it, carrying a working
\* reader or an error string.
C14_OnlyPortChecked ==
    (only # NoPort /\ fd_pc \notin {"off", "start"})
    => /\ fd_pc # "raised"
       /\ Len(possible) = 1
       /\ possible[1].port = only
       /\ (fd_pc \in {"returned", "main", "exit"}
             => (possible[1].dev.set \/ possible[1].error # NoError))

\* C15: find_devices returns one SearchResult per candidate port, and in each
\* exactly one of dev and error is set: "no such port" for a missing path,
\* "access denied" for an unreadable one, "no data" when the trial read()
\* returned no Reading, the exception text when it raised, and dev only when
\* the trial read() returned a Reading.
Returned == fd_pc \in {"returned", "main", "exit"}
View(r) ==
    IF r = cur
    THEN [buffer |-> buffer, checksum_errors |-> checksum_errors,
          serial |-> serial]
    ELSE [buffer |-> possible[r].dev.buffer,
          checksum_errors |-> possible[r].dev.checksum_errors,
          serial |-> possible[r].dev.serial]
C16_ReadersIndependent ==
    [][\A r \in 1..Len(possible) :
        ( /\ Len(possible') = Len(possible)
          /\ possible[r].dev.set /\ possible'[r].dev.set
          /\ (r # cur \/ cur' # cur) )
        => View(r)' = View(r)]_vars
C16_Witness ==
    /\ fd_pc = "main" /\ cur = 2 /\ pc = "consume"
    /\ possible[1].dev.set /\ possible[2].dev.set
    /\ Len(possible[1].dev.rets) = 2
    /\ possible[1].dev.buffer # buffer
    /\ Len(rets) = 1

====
